---- MODULE Spec2Model ----
(***************************************************************************)
(* Model of ct.py: the Telegram channel translator.  One asyncio task per  *)
(* incoming message runs new_message_handler; the tasks share the          *)
(* processed_messages cache.  Code between two awaits runs atomically, so  *)
(* every action below is one stretch of handler code from one await to the *)
(* next.  Strings are sequences of one-character strings.                  *)
(***************************************************************************)
EXTENDS Integers, Sequences, FiniteSets, TLC

\* ------------------------------------------------------------------ bounds
MaxMsgs == 3
MaxSections == 2
MaxTime == 32
MaxCaptionLen == 6
MaxTextLen == 4
MaxPhrases == 2
MaxChannels == 2

\* ------------------------------------------------------- program constants
PROCESSED_MESSAGE_RETENTION_MINUTES == 30
CAPTION_MAX_LENGTH == 1024

\* Length of a long translation: longer than a caption may be.
LongLen == CAPTION_MAX_LENGTH + 76

\* The failure value every translate_with_* returns.
TranslationFailed ==
  <<"T","r","a","n","s","l","a","t","i","o","n"," ","f","a","i","l","e","d",".">>

MediaPost == <<"M","e","d","i","a"," ","P","o","s","t">>

Ellipsis == <<".",".",".">>

\* --------------------------------------------------------------- strings
Whitespace == {" ", "\n", "\t"}

RECURSIVE lstrip(_)
lstrip(s) ==
  IF s /= <<>> /\ Head(s) \in Whitespace THEN lstrip(Tail(s)) ELSE s

RECURSIVE rstrip(_)
rstrip(s) ==
  IF s /= <<>> /\ s[Len(s)] \in Whitespace
    THEN rstrip(SubSeq(s, 1, Len(s) - 1))
    ELSE s

\* str.strip()
strip(s) == rstrip(lstrip(s))

\* True iff phrase occurs in text at position i.
OccursAt(text, phrase, i) ==
  /\ i + Len(phrase) - 1 <= Len(text)
  /\ SubSeq(text, i, i + Len(phrase) - 1) = phrase

\* str.replace(phrase, ''): non-overlapping occurrences, scanned left to right.
RECURSIVE replace_from(_,_,_)
replace_from(text, phrase, i) ==
  IF i > Len(text) THEN <<>>
  ELSE IF phrase /= <<>> /\ OccursAt(text, phrase, i)
    THEN replace_from(text, phrase, i + Len(phrase))
    ELSE <<text[i]>> \o replace_from(text, phrase, i + 1)

replace(text, phrase) == replace_from(text, phrase, 1)

RECURSIVE remove_phrases(_,_,_)
remove_phrases(text, phrases, k) ==
  IF k > Len(phrases) THEN text
  ELSE remove_phrases(replace(text, phrases[k]), phrases, k + 1)

filter_common_phrases(text, phrases) == strip(remove_phrases(text, phrases, 1))

\* The characters of the labels, channel names and model names in use.
Chars(s) ==
  CASE s = "Original" -> <<"O","r","i","g","i","n","a","l">>
    [] s = "DeepL" -> <<"D","e","e","p","L">>
    [] s = "Google" -> <<"G","o","o","g","l","e">>
    [] s = "DuckDuckGo" -> <<"D","u","c","k","D","u","c","k","G","o">>
    [] s = "m1" -> <<"m","1">>
    [] s = "m2" -> <<"m","2">>
    [] s = "m3" -> <<"m","3">>
    [] s = "chan" -> <<"c","h","a","n">>
    [] OTHER -> <<"?">>

\* One text of LongLen characters.
LongText == [i \in 1..LongLen |-> "x"]

\* hashlib.md5(msg.encode('utf-8')).hexdigest() on the message texts in use.
compute_hexdigest(msg) ==
  CASE msg = <<"a">> -> "0cc175b9c0f1b6a831c399e269772661"
    [] msg = <<"b">> -> "92eb5ffee6ae2fec3ad71c777531578f"
    [] msg = <<"p">> -> "83878c91171338902e0fe0fb97a8c47a"
    [] msg = <<"p","a">> -> "e529a9cea4a728eb9c5828b13b22844c"
    [] OTHER -> "unlisted"

\* s[:n]: the first n items, or all but the last -n when n is negative.
slice_to(s, n) ==
  LET stop == IF n >= 0 THEN n ELSE Len(s) + n
  IN  SubSeq(s, 1, IF stop > Len(s) THEN Len(s) ELSE stop)

\* Faulty variant: the ellipsis is added to max_length characters.
truncate_keeping_max(caption, max_length) ==
  IF Len(caption) <= max_length
    THEN caption
    ELSE slice_to(caption, max_length) \o Ellipsis

\* caption if len(caption) <= max_length else caption[:max_length - 3] + "..."
truncate_caption(caption, max_length) ==
  IF Len(caption) <= max_length
    THEN caption
    ELSE slice_to(caption, max_length - 3) \o Ellipsis

\* ------------------------------------------------------------ python dict
\* A dict is the sequence of its items in insertion order.
DictHas(d, k) == \E i \in 1..Len(d) : d[i].key = k

DictGet(d, k) == d[CHOOSE i \in 1..Len(d) : d[i].key = k].value

\* d[k] = v: a present key keeps its position, a new key goes last.
DictSet(d, k, v) ==
  IF DictHas(d, k)
    THEN [i \in 1..Len(d) |-> IF d[i].key = k THEN [key |-> k, value |-> v] ELSE d[i]]
    ELSE Append(d, [key |-> k, value |-> v])

\* ------------------------------------------------------------------ config
SectionName(i) == CASE i = 1 -> "OpenAI1" [] i = 2 -> "OpenAI2" [] OTHER -> "OpenAI3"

ModelName(i) == CASE i = 1 -> "m1" [] i = 2 -> "m2" [] OTHER -> "m3"

SectionNames == {SectionName(i) : i \in 1..MaxSections}

ModelNames == {ModelName(i) : i \in 1..MaxSections}

\* provider_name.startswith('OpenAI')
StartsWithOpenAI(name) == name \in SectionNames

\* The [OpenAI*] sections of a config file, in file order.  complete: the
\* section has api_base, model and key; enabled: its flag under [Translators].
\* The flag of an incomplete section is never stored: it is left TRUE.
SectionKinds == {k \in [complete : BOOLEAN, enabled : BOOLEAN] : k.complete \/ k.enabled}

SectionLists == UNION {[1..n -> SectionKinds] : n \in 0..MaxSections}

\* The sections get_openai_providers looks at, with their names and models.
RECURSIVE complete_sections(_,_)
complete_sections(sections, i) ==
  IF i > Len(sections) THEN <<>>
  ELSE (IF sections[i].complete
          THEN <<[name |-> SectionName(i), model |-> ModelName(i),
                  enabled |-> sections[i].enabled]>>
          ELSE <<>>) \o complete_sections(sections, i + 1)

\* get_openai_providers: the providers list (models of the enabled sections).
RECURSIVE providers_of(_,_)
providers_of(secs, i) ==
  IF i > Len(secs) THEN <<>>
  ELSE (IF secs[i].enabled THEN <<secs[i].model>> ELSE <<>>) \o providers_of(secs, i + 1)

get_openai_providers(c) == providers_of(complete_sections(c.sections, 1), 1)

\* main: openai_providers
openai_providers(c) == IF c.OpenAI THEN get_openai_providers(c) ELSE <<>>

\* Faulty variant: Google is written first.
builtin_google_first(c) ==
  << [key |-> "Google", value |-> c.Google],
     [key |-> "DeepL", value |-> c.DeepL],
     [key |-> "DuckDuckGo", value |-> c.DuckDuckGo] >>

\* The three fixed entries of translators_enabled, in the order main writes them.
builtin_translators(c) ==
  << [key |-> "DeepL", value |-> c.DeepL],
     [key |-> "Google", value |-> c.Google],
     [key |-> "DuckDuckGo", value |-> c.DuckDuckGo] >>

\* translators_enabled[section] = enabled, for each complete section in turn.
RECURSIVE add_sections(_,_,_)
add_sections(d, secs, i) ==
  IF i > Len(secs) THEN d
  ELSE add_sections(DictSet(d, secs[i].name, secs[i].enabled), secs, i + 1)

\* main: the translators_enabled dict the handler iterates.
translators_enabled(c) ==
  IF c.OpenAI
    THEN add_sections(builtin_translators(c), complete_sections(c.sections, 1), 1)
    ELSE builtin_translators(c)

\* ------------------------------------------------------------------- state
VARIABLES
  cfg,                 \* what main read from the config file and the phrases file
  inbox,               \* NewMessage events the client has still to deliver
  now,                 \* datetime.now(), in minutes
  processed_messages,  \* the shared cache: message hash -> time recorded
  task,                \* one new_message_handler task per delivered event
  boot,                \* main before the client runs: where it is, what it holds
  calc                 \* one call of a string function: arguments and result

vars == <<cfg, inbox, now, processed_messages, task, boot, calc>>

Tasks == 1..MaxMsgs

NoTime == 0 - 1

NoHash == "none"

NotSent == [via |-> "none", text |-> <<>>]

\* A task no event has been delivered to yet.
IdleTask ==
  [ pc |-> "idle", original_text |-> <<>>, media |-> FALSE, username |-> "unknown",
    message_hash |-> NoHash, filtered_text |-> <<>>, translations |-> <<>>,
    idx |-> 0, pidx |-> 0, message_content |-> <<>>, sent |-> NotSent,
    \* history of the task, read by the properties only
    calls |-> <<>>, requests |-> <<>>, failed |-> {}, raised |-> {},
    stale |-> FALSE, rivals |-> {}, looked_up |-> NoTime, fresh |-> FALSE,
    interfered |-> FALSE, won |-> <<>>, sends |-> 0, chain |-> <<>>,
    returns |-> <<>>, kept |-> FALSE ]

\* main past its startup, as the handlers find it.
Running ==
  [ pc |-> "running", entries |-> <<>>, CHANNELS |-> <<>>, i |-> 0,
    channel_entities |-> <<>>, chats |-> <<>>, failure |-> "none", errors |-> {} ]

\* No string function is being called.
NoCalc ==
  [ fn |-> "none", pc |-> "done", text |-> <<>>, max_length |-> 0,
    phrases |-> <<>>, out |-> <<>>, again |-> <<>> ]

\* ------------------------------------------------------------- deduplicator
\* Faulty variant: an entry exactly at the cutoff is evicted too.
expired_at_cutoff(v, cutoff_time) == v <= cutoff_time

\* v < cutoff_time
expired(v, cutoff_time) == v < cutoff_time

\* Faulty variant: nothing is ever evicted.
cleanup_nothing(pm, t) == pm

\* cleanup_processed_messages at time t
cleanup_processed_messages(pm, t) ==
  LET cutoff_time == t - PROCESSED_MESSAGE_RETENTION_MINUTES
      keys_to_remove == {k \in DOMAIN pm : expired(pm[k], cutoff_time)}
  IN  [k \in DOMAIN pm \ keys_to_remove |-> pm[k]]

\* message_hash in processed_messages
is_duplicate(pm, message_hash) == message_hash \in DOMAIN pm

\* Faulty variant: the hash is not recorded.
record_nothing(pm, message_hash, t) == pm

\* processed_messages[message_hash] = datetime.now()
record_message(pm, message_hash, t) ==
  [k \in DOMAIN pm \cup {message_hash} |-> IF k = message_hash THEN t ELSE pm[k]]

\* The cache holds an entry recorded exactly the retention time before t.
AtCutoff(pm, t) ==
  \E k \in DOMAIN pm : pm[k] = t - PROCESSED_MESSAGE_RETENTION_MINUTES

\* The tasks that passed the dedup gate and recorded this text.
Recorders(text) ==
  {g \in Tasks : /\ task[g].original_text = text
                 /\ task[g].looked_up /= NoTime
                 /\ task[g].pc /= "duplicate"}

\* The time this text was last recorded in the cache (NoTime: never).
LastRecorded(text) ==
  LET times == {task[g].looked_up : g \in Recorders(text)}
  IN  IF times = {} THEN NoTime ELSE CHOOSE t \in times : \A u \in times : u <= t

\* The text was recorded, and last recorded at most the retention time ago.
Fresh(text) ==
  /\ LastRecorded(text) /= NoTime
  /\ now - LastRecorded(text) <= PROCESSED_MESSAGE_RETENTION_MINUTES

\* The text was recorded, and last recorded more than the retention time ago.
Stale(text) ==
  /\ LastRecorded(text) /= NoTime
  /\ now - LastRecorded(text) > PROCESSED_MESSAGE_RETENTION_MINUTES

\* ---------------------------------------------------------------- composer
UnknownChannel == <<"U","n","k","n","o","w","n"," ","C","h","a","n","n","e","l">>

\* f"@{channel_username}" if channel_username != 'unknown' else "Unknown Channel"
channel_link(username) ==
  IF username /= "unknown" THEN <<"@">> \o Chars(username) ELSE UnknownChannel

\* f"{key}:\n{value}"
section_text(key, value) == Chars(key) \o <<":", "\n">> \o value

\* "\n\n".join(sections of the items from i on)
RECURSIVE join_sections(_,_)
join_sections(d, i) ==
  IF i > Len(d) THEN <<>>
  ELSE section_text(d[i].key, d[i].value)
         \o (IF i < Len(d) THEN <<"\n", "\n">> ELSE <<>>)
         \o join_sections(d, i + 1)

\* message_content
compose(username, translations) ==
  <<"F","r","o","m"," ">> \o channel_link(username) \o <<":", "\n", "\n">>
    \o join_sections(translations, 1)

\* What the handler hands to the client: send_file gets the caption,
\* send_message gets message_content.
dispatch_of(media, message_content) ==
  IF media
    THEN [via |-> "send_file",
          text |-> truncate_caption(message_content, CAPTION_MAX_LENGTH)]
    ELSE [via |-> "send_message", text |-> message_content]

\* Faulty variant: the send is started with the content as it is before the
\* digest is composed.
send_before_compose(t) ==
  [t EXCEPT !.pc = "sending",
            !.sent = dispatch_of(t.media, t.message_content),
            !.sends = @ + 1]

\* Faulty variant: the digest is composed and no send is started.
compose_only(t) ==
  [t EXCEPT !.pc = "composed",
            !.message_content = compose(t.username, t.translations)]

\* Lines 328-339: compose, truncate, and start the send.
start_send(t) ==
  LET message_content == compose(t.username, t.translations)
  IN  [t EXCEPT !.pc = "sending",
                !.message_content = message_content,
                !.sent = dispatch_of(t.media, message_content),
                !.sends = @ + 1]

\* ------------------------------------------------------------ orchestrator
\* No model: the second item of translate_with_openai's failure value.
NoModel == "None"

\* One request of translate_with_openai, as it is awaited.
Request(model) == [model |-> model, outcome |-> "pending", answer |-> <<>>]

\* return "Translation failed.", None
openai_failure(chain) ==
  [translation |-> TranslationFailed, model |-> NoModel, chain |-> chain]

\* The last request of the chain has this outcome.
Settle(chain, outcome, answer) ==
  [chain EXCEPT ![Len(chain)] = [@ EXCEPT !.outcome = outcome, !.answer = answer]]

\* Faulty variant: no placeholder for an empty text.
seed_without_placeholder(filtered_text) ==
  << [key |-> "Original", value |-> filtered_text] >>

\* {"Original": filtered_text if filtered_text else "Media Post"}
seed_translations(filtered_text) ==
  << [key |-> "Original",
      value |-> IF filtered_text /= <<>> THEN filtered_text ELSE MediaPost] >>

\* if enabled and filtered_text
attempts(enabled, filtered_text) == enabled /\ filtered_text /= <<>>

\* if translation != "Translation failed."  (then: record and break)
openai_succeeded(translation) == translation /= TranslationFailed

\* Faulty variant: a failure value is left out of the digest.
record_unless_failed(translations, label, translation) ==
  IF translation = TranslationFailed
    THEN translations
    ELSE DictSet(translations, label, translation)

\* translations["Google"] = translation, and the like: the result is stored
\* under the backend's label whatever it is.
record_result(translations, label, translation) ==
  DictSet(translations, label, translation)

\* The for loop over translators_enabled.items(), from item i up to the next
\* await: the task as it waits for a backend, or for the send when the loop
\* is over.  translate_with_deepl without a key and translate_with_openai
\* without providers return the failure value without awaiting.
RECURSIVE run_translators(_,_)
run_translators(t, i) ==
  LET items == translators_enabled(cfg) IN
  IF i > Len(items) THEN start_send(t)
  ELSE
    LET provider_name == items[i].key
        called == [t EXCEPT !.idx = i, !.calls = Append(@, provider_name)]
    IN
    IF ~attempts(items[i].value, t.filtered_text) THEN run_translators(t, i + 1)
    ELSE IF StartsWithOpenAI(provider_name) THEN
      IF openai_providers(cfg) = <<>>
        THEN run_translators(
               [called EXCEPT !.failed = @ \cup {provider_name},
                              !.returns = Append(@, openai_failure(<<>>))], i + 1)
        ELSE [called EXCEPT !.pc = "openai", !.pidx = 1, !.requests = Append(@, 1),
                            !.chain = <<Request(openai_providers(cfg)[1])>>]
    ELSE IF provider_name = "Google" THEN [called EXCEPT !.pc = "google"]
    ELSE IF provider_name = "DeepL" THEN
      IF ~cfg.deepl_key
        THEN run_translators(
               [called EXCEPT !.translations =
                                record_result(@, "DeepL", TranslationFailed),
                              !.failed = @ \cup {"DeepL"}], i + 1)
        ELSE [called EXCEPT !.pc = "deepl"]
    ELSE IF provider_name = "DuckDuckGo" THEN [called EXCEPT !.pc = "duckduckgo"]
    ELSE run_translators(t, i + 1)

\* Faulty variant: no break, the loop goes on with the next item.
go_on_after_openai_success(t, i) == run_translators(t, i + 1)

\* break  # Exit after first successful translation: the loop is left with
\* items after i untried.
after_openai_success(t, i) == start_send(t)

\* ------------------------------------------------------------- environment
\* What a backend hands back when it translates.
Translated == <<"o","k">>

Booleans == {TRUE, FALSE}

\* Every configuration of the translators.
AnyConfig ==
  [ DeepL : Booleans, Google : Booleans, DuckDuckGo : Booleans,
    deepl_key : Booleans, OpenAI : Booleans, sections : SectionLists,
    common_phrases : {<< <<"p">> >>} ]

\* Without the settings that are never read: the key of a disabled DeepL,
\* the sections of a disabled OpenAI.
Configs ==
  {c \in AnyConfig : /\ (c.DeepL \/ c.deepl_key)
                     /\ (c.OpenAI \/ c.sections = <<>>)}

\* Configurations used to run several messages at once.
FewConfigs ==
  {c \in Configs : /\ c.Google /\ ~c.DeepL /\ ~c.DuckDuckGo /\ ~c.OpenAI
                   /\ c.deepl_key /\ c.sections = <<>>}

MessageTexts == {<<>>, <<" ">>, <<"a">>, <<"p">>, <<"p", "a">>}

\* What a backend call can return: translate_with_google.
GoogleResults == {Translated, LongText, TranslationFailed}

\* What translate_with_deepl, translate_with_duckduckgo and a provider's
\* answer (stripped) can be.
Results == {Translated, TranslationFailed}

\* The events of a channel with a username, and one of a chat without.
Events ==
  {e \in [text : MessageTexts, media : Booleans, username : {"chan", "unknown"}] :
     e.username = "unknown" => (e.text = <<"a">> /\ ~e.media)}

FewEvents == [text : {<<"a">>, <<"b">>}, media : {FALSE}, username : {"chan"}]

\* One message, under every configuration.
Init ==
  /\ cfg \in Configs
  /\ inbox \in {<<e>> : e \in Events}
  /\ now = 0
  /\ processed_messages = <<>>
  /\ task = [h \in Tasks |-> IdleTask]
  /\ boot = Running
  /\ calc = NoCalc

\* Several messages with the same text, the last one possibly with another,
\* under the few configurations.
InitDedup ==
  /\ cfg \in FewConfigs
  /\ inbox \in {q \in [1..MaxMsgs -> FewEvents] :
                   \A i \in 1..MaxMsgs : q[i].text = <<"b">> => i = MaxMsgs}
  /\ now = 0
  /\ processed_messages = <<>>
  /\ task = [h \in Tasks |-> IdleTask]
  /\ boot = Running
  /\ calc = NoCalc

\* ------------------------------------------------------------------ actions
\* Lines 276-286: the event is delivered; the handler runs up to the await
\* of hash_message.
Receive(h) ==
  /\ inbox /= <<>>
  /\ task[h].pc = "idle"
  /\ \A g \in Tasks : g < h => task[g].pc /= "idle"
  /\ LET event == Head(inbox)
         original_text == event.text
         started == [task[h] EXCEPT !.original_text = original_text,
                                    !.media = event.media,
                                    !.username = event.username,
                                    !.stale = Stale(original_text),
                                    !.rivals = Recorders(original_text)]
     IN  IF strip(original_text) = <<>>
           THEN /\ task' = [task EXCEPT ![h] = [started EXCEPT !.pc = "skipped"]]
                /\ UNCHANGED processed_messages
           ELSE LET cleaned == cleanup_processed_messages(processed_messages, now)
                IN  /\ task' = [task EXCEPT ![h] =
                                  [started EXCEPT !.pc = "hashing",
                                                  !.kept = AtCutoff(cleaned, now)]]
                    /\ processed_messages' = cleaned
  /\ inbox' = Tail(inbox)
  /\ UNCHANGED <<boot, calc, cfg, now>>

\* Lines 286-303: hash_message returns; lookup, record, filter, seed the
\* digest and run the translator loop up to its first await.
HashDone(h) ==
  /\ task[h].pc = "hashing"
  /\ LET t == task[h]
         message_hash == compute_hexdigest(t.original_text)
         looked == [t EXCEPT !.message_hash = message_hash,
                             !.looked_up = now,
                             !.fresh = Fresh(t.original_text),
                             !.interfered = (Recorders(t.original_text) /= t.rivals)]
     IN  IF is_duplicate(processed_messages, message_hash)
           THEN /\ task' = [task EXCEPT ![h] = [looked EXCEPT !.pc = "duplicate"]]
                /\ UNCHANGED processed_messages
           ELSE LET filtered_text ==
                      filter_common_phrases(t.original_text, cfg.common_phrases)
                    accepted == [looked EXCEPT
                                   !.filtered_text = filtered_text,
                                   !.translations = seed_translations(filtered_text)]
                IN  /\ processed_messages' =
                         record_message(processed_messages, message_hash, now)
                    /\ task' = [task EXCEPT ![h] = run_translators(accepted, 1)]
  /\ UNCHANGED <<boot, calc, cfg, inbox, now>>

\* Lines 313-315: translate_with_google returns the text or the failure value.
GoogleReturn(h, translation) ==
  /\ task[h].pc = "google"
  /\ LET t == task[h]
         got == [t EXCEPT !.translations = record_result(@, "Google", translation),
                          !.failed = IF translation = TranslationFailed
                                       THEN @ \cup {"Google"} ELSE @]
     IN  task' = [task EXCEPT ![h] = run_translators(got, t.idx + 1)]
  /\ UNCHANGED <<boot, calc, cfg, inbox, now, processed_messages>>

\* Lines 316-318: translate_with_deepl (with a key) returns.
DeepLReturn(h, translation) ==
  /\ task[h].pc = "deepl"
  /\ LET t == task[h]
         got == [t EXCEPT !.translations = record_result(@, "DeepL", translation),
                          !.failed = IF translation = TranslationFailed
                                       THEN @ \cup {"DeepL"} ELSE @]
     IN  task' = [task EXCEPT ![h] = run_translators(got, t.idx + 1)]
  /\ UNCHANGED <<boot, calc, cfg, inbox, now, processed_messages>>

\* Lines 319-323: translate_with_duckduckgo returns.
DuckDuckGoReturn(h, translation) ==
  /\ task[h].pc = "duckduckgo"
  /\ LET t == task[h]
         got == [t EXCEPT !.translations = record_result(@, "DuckDuckGo", translation),
                          !.failed = IF translation = TranslationFailed
                                       THEN @ \cup {"DuckDuckGo"} ELSE @]
     IN  task' = [task EXCEPT ![h] = run_translators(got, t.idx + 1)]
  /\ UNCHANGED <<boot, calc, cfg, inbox, now, processed_messages>>

\* Lines 124-125 and 324-326: DDGS(...) or the template raises outside the
\* try of duckduckgo_translate; the handler's except logs it and the loop
\* goes on.
DuckDuckGoRaise(h) ==
  /\ task[h].pc = "duckduckgo"
  /\ LET t == task[h]
         got == [t EXCEPT !.failed = @ \cup {"DuckDuckGo"},
                          !.raised = @ \cup {"DuckDuckGo"}]
     IN  task' = [task EXCEPT ![h] = run_translators(got, t.idx + 1)]
  /\ UNCHANGED <<boot, calc, cfg, inbox, now, processed_messages>>

\* Lines 83-91 and 310-312: the awaited provider answers; translate_with_openai
\* returns its text and model, the handler records it and breaks.
OpenAIAnswer(h, translation) ==
  /\ task[h].pc = "openai"
  /\ LET t == task[h]
         model == openai_providers(cfg)[t.pidx]
         provider_name == translators_enabled(cfg)[t.idx].key
         chain == Settle(t.chain, "ok", translation)
         returned == [t EXCEPT !.returns = Append(@, [translation |-> translation,
                                                      model |-> model,
                                                      chain |-> chain]),
                               !.chain = chain]
     IN  IF openai_succeeded(translation)
           THEN LET got == [returned EXCEPT
                              !.translations = DictSet(@, model, translation),
                              !.won = <<[model |-> model, translation |-> translation,
                                         calls |-> Len(t.calls),
                                         requests |-> Len(t.requests)]>>]
                IN  task' = [task EXCEPT ![h] = after_openai_success(got, t.idx)]
           ELSE task' = [task EXCEPT ![h] =
                  run_translators([returned EXCEPT !.failed = @ \cup {provider_name}],
                                  t.idx + 1)]
  /\ UNCHANGED <<boot, calc, cfg, inbox, now, processed_messages>>

\* Faulty variant: the first fault ends translate_with_openai with the
\* failure value.
OpenAIFaultGivesUp(h) ==
  /\ task[h].pc = "openai"
  /\ LET t == task[h]
         provider_name == translators_enabled(cfg)[t.idx].key
         chain == Settle(t.chain, "fault", <<>>)
     IN  task' = [task EXCEPT ![h] =
           run_translators([t EXCEPT !.failed = @ \cup {provider_name},
                                     !.chain = chain,
                                     !.returns = Append(@, openai_failure(chain))],
                           t.idx + 1)]
  /\ UNCHANGED <<boot, calc, cfg, inbox, now, processed_messages>>

\* Lines 92-95: the awaited provider faults; the next provider is asked, or
\* translate_with_openai returns the failure value and the loop goes on.
OpenAIFault(h) ==
  /\ task[h].pc = "openai"
  /\ LET t == task[h]
         provider_name == translators_enabled(cfg)[t.idx].key
         chain == Settle(t.chain, "fault", <<>>)
     IN  IF t.pidx < Len(openai_providers(cfg))
           THEN task' = [task EXCEPT ![h] =
                  [t EXCEPT !.pidx = t.pidx + 1,
                            !.requests = Append(@, t.pidx + 1),
                            !.chain = Append(chain,
                                        Request(openai_providers(cfg)[t.pidx + 1]))]]
           ELSE task' = [task EXCEPT ![h] =
                  run_translators([t EXCEPT !.failed = @ \cup {provider_name},
                                            !.chain = chain,
                                            !.returns = Append(@, openai_failure(chain))],
                                  t.idx + 1)]
  /\ UNCHANGED <<boot, calc, cfg, inbox, now, processed_messages>>

\* Faulty variant: a failed send is started again.
SendRetry(h, ok) ==
  /\ task[h].pc = "sending"
  /\ task' = [task EXCEPT ![h] = IF ok THEN [@ EXCEPT !.pc = "dispatched"]
                                       ELSE [@ EXCEPT !.sends = @ + 1]]
  /\ UNCHANGED <<boot, calc, cfg, inbox, now, processed_messages>>

\* Faulty variant: a failed send takes the fingerprint out of the cache.
SendFailureForgets(h, ok) ==
  /\ task[h].pc = "sending"
  /\ task' = [task EXCEPT ![h].pc = IF ok THEN "dispatched" ELSE "dispatch_failed"]
  /\ processed_messages' =
       IF ok THEN processed_messages
       ELSE [k \in DOMAIN processed_messages \ {task[h].message_hash} |->
               processed_messages[k]]
  /\ UNCHANGED <<boot, calc, cfg, inbox, now>>

\* Lines 334-343: the send returns or raises; the except logs the failure.
SendReturn(h, ok) ==
  /\ task[h].pc = "sending"
  /\ task' = [task EXCEPT ![h].pc = IF ok THEN "dispatched" ELSE "dispatch_failed"]
  /\ UNCHANGED <<boot, calc, cfg, inbox, now, processed_messages>>

\* Time passes.
TickSteps == {15, 16}

Tick(d) ==
  /\ now + d <= MaxTime
  /\ now' = now + d
  /\ UNCHANGED <<boot, calc, cfg, inbox, processed_messages, task>>

Next ==
  \/ \E h \in Tasks : Receive(h)
  \/ \E h \in Tasks : HashDone(h)
  \/ \E h \in Tasks : \E r \in GoogleResults : GoogleReturn(h, r)
  \/ \E h \in Tasks : \E r \in Results : DeepLReturn(h, r)
  \/ \E h \in Tasks : \E r \in Results : DuckDuckGoReturn(h, r)
  \/ \E h \in Tasks : DuckDuckGoRaise(h)
  \/ \E h \in Tasks : \E r \in Results : OpenAIAnswer(h, r)
  \/ \E h \in Tasks : OpenAIFault(h)
  \/ \E h \in Tasks : \E ok \in Booleans : SendReturn(h, ok)

\* The pipeline of one message.  The handler reads the clock at the dedup
\* gate only (and for its log lines), so time stands still here.
Spec == Init /\ [][Next]_vars

\* The dedup gate: concurrent handlers, with time passing between any two steps.
NextDedup ==
  \/ \E h \in Tasks : Receive(h)
  \/ \E h \in Tasks : HashDone(h)
  \/ \E h \in Tasks : \E r \in Results : GoogleReturn(h, r)
  \/ \E h \in Tasks : \E ok \in Booleans : SendReturn(h, ok)
  \/ \E d \in TickSteps : Tick(d)

SpecDedup == InitDedup /\ [][NextDedup]_vars

\* Every backend in use: DeepL without a key, Google, DuckDuckGo and one
\* OpenAI provider.
BusyConfigs ==
  {c \in Configs : /\ c.DeepL /\ ~c.deepl_key /\ c.Google /\ c.DuckDuckGo
                   /\ c.OpenAI
                   /\ c.sections = <<[complete |-> TRUE, enabled |-> TRUE]>>}

\* The events of FewEvents, and one with a blank text.
BusyEvents == FewEvents \cup {[text |-> <<" ">>, media |-> FALSE, username |-> "chan"]}

\* Two messages, with the same text or with two texts.
InitBusy ==
  /\ cfg \in BusyConfigs
  /\ inbox \in {<<e, f>> : e, f \in BusyEvents}
  /\ now = 0
  /\ processed_messages = <<>>
  /\ task = [h \in Tasks |-> IdleTask]
  /\ boot = Running
  /\ calc = NoCalc

\* What a handler awaits comes back: the hash, a backend call, the send.
Resume(h) ==
  \/ HashDone(h)
  \/ \E r \in Results : GoogleReturn(h, r)
  \/ DuckDuckGoReturn(h, Translated)
  \/ DuckDuckGoRaise(h)
  \/ OpenAIAnswer(h, Translated)
  \/ OpenAIFault(h)
  \/ \E ok \in Booleans : SendReturn(h, ok)

NextBusy ==
  \/ \E h \in Tasks : Receive(h)
  \/ \E h \in Tasks : Resume(h)
  \/ \E d \in TickSteps : Tick(d)

\* Concurrent handlers that call every backend, with time passing between
\* any two steps.
SpecBusy == InitBusy /\ [][NextBusy]_vars

\* The handlers alone: no handler step depends on how much time has passed,
\* but for the outcome of the dedup lookup.
NextLive ==
  \/ \E h \in Tasks : Receive(h)
  \/ \E h \in Tasks : Resume(h)

\* Concurrent handlers, when whatever a handler awaits does come back and the
\* event loop then runs the handler on: each task is resumed if it stays
\* resumable.
SpecLive == InitBusy /\ [][NextLive]_vars /\ \A h \in Tasks : WF_vars(Resume(h))

\* ------------------------------------------------------- string functions
\* All sequences over S of at most n items.
SeqsUpTo(S, n) == UNION {[1..k -> S] : k \in 0..n}

\* Captions around the small limits, and captions around the caption limit.
ShortCaptions == SeqsUpTo({"a", "."}, MaxCaptionLen)

LongCaptions ==
  {[i \in 1..n |-> "x"] : n \in (CAPTION_MAX_LENGTH - 2)..(CAPTION_MAX_LENGTH + 2)}

\* The limits: small ones, with and without room for the ellipsis, and the
\* one the handler uses.
SmallLimits == 0..(MaxCaptionLen - 1)

TruncateCalls ==
  {[NoCalc EXCEPT !.fn = "truncate_caption", !.pc = "call",
                  !.text = c, !.max_length = n] :
     c \in ShortCaptions, n \in SmallLimits}
  \cup
  {[NoCalc EXCEPT !.fn = "truncate_caption", !.pc = "call",
                  !.text = c, !.max_length = CAPTION_MAX_LENGTH] :
     c \in LongCaptions}

\* Lines of the phrases file: stripped and not empty.
PhraseLines == {<<"p">>, <<"a">>, <<"p", "a">>, <<"p", "p">>}

FilterCalls ==
  {[NoCalc EXCEPT !.fn = "filter_common_phrases", !.pc = "call",
                  !.text = x, !.phrases = ps] :
     x \in SeqsUpTo({"p", "a", " "}, MaxTextLen),
     ps \in SeqsUpTo(PhraseLines, MaxPhrases)}

InitPure ==
  /\ cfg \in FewConfigs
  /\ inbox = <<>>
  /\ now = 0
  /\ processed_messages = <<>>
  /\ task = [h \in Tasks |-> IdleTask]
  /\ boot = Running
  /\ calc \in TruncateCalls \cup FilterCalls

\* Lines 167-169.
Truncate ==
  /\ calc.fn = "truncate_caption"
  /\ calc.pc = "call"
  /\ calc' = [calc EXCEPT !.pc = "done",
                          !.out = truncate_caption(calc.text, calc.max_length)]
  /\ UNCHANGED <<boot, cfg, inbox, now, processed_messages, task>>

\* Lines 51-55, on the text.
Filter ==
  /\ calc.fn = "filter_common_phrases"
  /\ calc.pc = "call"
  /\ calc' = [calc EXCEPT !.pc = "again",
                          !.out = filter_common_phrases(calc.text, calc.phrases)]
  /\ UNCHANGED <<boot, cfg, inbox, now, processed_messages, task>>

\* Lines 51-55 once more, on the result of the first call.
FilterAgain ==
  /\ calc.fn = "filter_common_phrases"
  /\ calc.pc = "again"
  /\ calc' = [calc EXCEPT !.pc = "done",
                          !.again = filter_common_phrases(calc.out, calc.phrases)]
  /\ UNCHANGED <<boot, cfg, inbox, now, processed_messages, task>>

NextPure == Truncate \/ Filter \/ FilterAgain

\* The string functions, each called on every argument of a bounded set.
SpecPure == InitPure /\ [][NextPure]_vars

\* ------------------------------------------------------------------ startup
\* ",".join(entries): the channels setting as it stands in the file.
RECURSIVE join_commas(_,_)
join_commas(entries, i) ==
  IF i > Len(entries) THEN <<>>
  ELSE entries[i] \o (IF i < Len(entries) THEN <<",">> ELSE <<>>)
         \o join_commas(entries, i + 1)

\* channel.lstrip('@')
RECURSIVE lstrip_at(_)
lstrip_at(s) == IF s /= <<>> /\ Head(s) = "@" THEN lstrip_at(Tail(s)) ELSE s

\* [channel.strip().lstrip('@') for channel in ... if channel.strip()]
RECURSIVE channels_of(_,_)
channels_of(entries, i) ==
  IF i > Len(entries) THEN <<>>
  ELSE (IF strip(entries[i]) /= <<>> THEN <<lstrip_at(strip(entries[i]))>> ELSE <<>>)
         \o channels_of(entries, i + 1)

Letters == {"a", "c", "d", "e", "h", "n", "s", "w", "b"}

WordChars == Letters \cup {"1", "_"}

\* USERNAME_REGEX.match(channel): ^[a-zA-Z][\w\d]{4,31}$
matches_username(channel) ==
  /\ Len(channel) >= 1 + 4
  /\ Len(channel) <= 1 + 31
  /\ channel[1] \in Letters
  /\ \A k \in 2..Len(channel) : channel[k] \in WordChars

\* invalid_usernames
invalid_usernames(CHANNELS) ==
  SelectSeq(CHANNELS, LAMBDA channel : ~matches_username(channel))

\* Entries of the channels setting, between its commas.
ChannelEntries ==
  { <<"@", "c", "h", "a", "n", "1">>, <<" ", "n", "e", "w", "s", "_">>,
    <<"b", "a", "d">>, <<"1", "c", "h", "a", "n">>, <<" ">>, <<"@">> }

\* What client.get_input_entity does with a channel.
Resolutions == {"entity", "UsernameInvalidError", "Exception"}

\* The entity of a channel.
EntityOf(channel) == [peer |-> channel]

\* main is about to read the channels setting.
Booting(entries) == [Running EXCEPT !.pc = "config", !.entries = entries]

InitStartup ==
  /\ cfg \in FewConfigs
  /\ inbox = <<>>
  /\ now = 0
  /\ processed_messages = <<>>
  /\ task = [h \in Tasks |-> IdleTask]
  /\ calc = NoCalc
  /\ boot \in {Booting(entries) : entries \in SeqsUpTo(ChannelEntries, MaxChannels)}

\* sys.exit(1)
exit_1(b, failure) == [b EXCEPT !.pc = "exit", !.failure = failure]

\* Lines 232-250: the channels setting is read, split and validated.
ReadChannels ==
  /\ boot.pc = "config"
  /\ LET channels_config == strip(join_commas(boot.entries, 1))
         CHANNELS == channels_of(boot.entries, 1)
     IN  boot' =
           IF channels_config = <<>> THEN exit_1(boot, "no_channels")
           ELSE IF CHANNELS = <<>> THEN exit_1(boot, "no_valid_channels")
           ELSE IF invalid_usernames(CHANNELS) /= <<>>
             THEN exit_1([boot EXCEPT !.CHANNELS = CHANNELS], "invalid_usernames")
           ELSE [boot EXCEPT !.pc = "starting", !.CHANNELS = CHANNELS]
  /\ UNCHANGED <<calc, cfg, inbox, now, processed_messages, task>>

\* Lines 258-266: client.start() returns or raises; resolve_channels begins.
ClientStart(ok) ==
  /\ boot.pc = "starting"
  /\ boot' = IF ok THEN [boot EXCEPT !.pc = "resolving", !.i = 1]
                   ELSE exit_1(boot, "client")
  /\ UNCHANGED <<calc, cfg, inbox, now, processed_messages, task>>

\* Faulty variant: a channel that does not resolve ends the startup.
resolve_or_exit(b, resolution) ==
  IF resolution = "entity"
    THEN [b EXCEPT !.channel_entities = Append(@, EntityOf(b.CHANNELS[b.i])),
                   !.i = @ + 1]
    ELSE exit_1(b, "no_entities")

\* Lines 175-183: one turn of the loop of resolve_channels.  The entity is
\* appended, or the error is logged and the channel left out.
resolve_channel(b, resolution) ==
  IF resolution = "entity"
    THEN [b EXCEPT !.channel_entities = Append(@, EntityOf(b.CHANNELS[b.i])),
                   !.i = @ + 1]
    ELSE [b EXCEPT !.errors = @ \cup {b.i}, !.i = @ + 1]

\* Lines 267-274: no entity is fatal; else the handler is registered with
\* chats=channel_entities.
register_handler(b) ==
  IF b.channel_entities = <<>>
    THEN exit_1(b, "no_entities")
    ELSE [b EXCEPT !.pc = "registered", !.chats = b.channel_entities]

\* get_input_entity returns or raises for the next channel; after the last
\* one main goes on.
Resolve(resolution) ==
  /\ boot.pc = "resolving"
  /\ LET b == resolve_channel(boot, resolution)
     IN  boot' = IF b.pc = "resolving" /\ b.i > Len(b.CHANNELS)
                   THEN register_handler(b)
                   ELSE b
  /\ UNCHANGED <<calc, cfg, inbox, now, processed_messages, task>>

NextStartup ==
  \/ ReadChannels
  \/ \E ok \in Booleans : ClientStart(ok)
  \/ \E resolution \in Resolutions : Resolve(resolution)

\* main from the channels setting up to the registration of the handler.
SpecStartup == InitStartup /\ [][NextStartup]_vars

\* ============================================================== properties
Accepted(t) ==
  t.pc \in {"google", "deepl", "duckduckgo", "openai",
            "sending", "dispatched", "dispatch_failed"}

LoopOver(t) == t.pc \in {"sending", "dispatched", "dispatch_failed"}

\* ---------------------------------------------------------------------- C1
\* C1: a message whose text was last recorded at most 30 minutes before its
\* cache lookup is rejected as a duplicate: it is not filtered, no backend
\* is called for it and nothing is sent for it.
C1_DuplicateRejected ==
  \A h \in Tasks :
    task[h].fresh =>
      /\ task[h].pc = "duplicate"
      /\ task[h].filtered_text = <<>>
      /\ task[h].translations = <<>>
      /\ task[h].calls = <<>>
      /\ task[h].requests = <<>>
      /\ task[h].sent = NotSent

\* A duplicate is rejected exactly 30 minutes after the text was recorded.
C1_Witness ==
  \E h, g \in Tasks :
    /\ h /= g
    /\ task[h].original_text = task[g].original_text
    /\ Accepted(task[g])
    /\ task[h].fresh
    /\ task[h].pc = "duplicate"
    /\ task[h].looked_up - task[g].looked_up = PROCESSED_MESSAGE_RETENTION_MINUTES

C3_AtMostOne ==
  \A h, g \in Tasks :
    (/\ h /= g
     /\ task[h].original_text = task[g].original_text
     /\ Accepted(task[h])
     /\ Accepted(task[g])
     /\ task[g].looked_up <= task[h].looked_up)
      => task[h].looked_up - task[g].looked_up > PROCESSED_MESSAGE_RETENTION_MINUTES

\* Two handlers with the same text were both waiting for their hash; one
\* passed the gate and is still in flight, the other was rejected.
C3_Witness ==
  \E h, g \in Tasks :
    /\ h /= g
    /\ task[h].original_text = task[g].original_text
    /\ task[g].pc \in {"google", "sending"}
    /\ task[h].pc = "duplicate"
    /\ g \notin task[h].rivals
    /\ h < g

\* ---------------------------------------------------------------------- C4
\* C4 as claimed: a message is dropped on receipt only when it has neither
\* text nor media; one with media and no text goes on to be dispatched.
C4_Claim ==
  \A h \in Tasks :
    task[h].pc = "skipped" => (strip(task[h].original_text) = <<>> /\ ~task[h].media)

\* ---------------------------------------------------------------------- C5
\* C5: from the dedup gate to the dispatch the first entry of the digest is
\* "Original", holding the filtered text, or "Media Post" when that is empty;
\* and no backend is called for an empty filtered text.
C5_Original ==
  \A h \in Tasks :
    Accepted(task[h]) =>
      /\ Len(task[h].translations) >= 1
      /\ task[h].translations[1].key = "Original"
      /\ task[h].translations[1].value =
           (IF task[h].filtered_text /= <<>> THEN task[h].filtered_text ELSE MediaPost)
      /\ \A i \in 2..Len(task[h].translations) :
           task[h].translations[i].key /= "Original"
      /\ task[h].filtered_text = <<>> =>
           (task[h].calls = <<>> /\ task[h].requests = <<>>
              /\ Len(task[h].translations) = 1)

\* A message whose text is all boilerplate is dispatched as "Media Post"
\* with every backend enabled.
C5_Witness ==
  \E h \in Tasks :
    /\ task[h].pc = "dispatched"
    /\ task[h].original_text /= <<>>
    /\ task[h].filtered_text = <<>>
    /\ task[h].translations = << [key |-> "Original", value |-> MediaPost] >>
    /\ cfg.DeepL /\ cfg.Google /\ cfg.DuckDuckGo /\ cfg.OpenAI
    /\ openai_providers(cfg) /= <<>>

\* ---------------------------------------------------------------------- C6
IsStrictlyIncreasing(ranks) ==
  \A i, j \in 1..Len(ranks) : i < j => ranks[i] < ranks[j]

IsNonDecreasing(ranks) ==
  \A i, j \in 1..Len(ranks) : i < j => ranks[i] <= ranks[j]

\* The order the claim gives: OpenAI-compatible, Google, DeepL, DuckDuckGo.
ClaimedRank(label) ==
  CASE label = "Google" -> 2
    [] label = "DeepL" -> 3
    [] label = "DuckDuckGo" -> 4
    [] OTHER -> 1

\* The order of the code: DeepL, Google, DuckDuckGo, OpenAI-compatible.
CodeRank(label) ==
  CASE label = "DeepL" -> 1
    [] label = "Google" -> 2
    [] label = "DuckDuckGo" -> 3
    [] OTHER -> 4

\* The enabled backends by name, in the order of the code, the OpenAI
\* sections in the order of the configuration file.
RECURSIVE EnabledSections(_,_)
EnabledSections(c, i) ==
  IF i > Len(c.sections) THEN <<>>
  ELSE (IF c.sections[i].complete /\ c.sections[i].enabled
          THEN <<SectionName(i)>> ELSE <<>>) \o EnabledSections(c, i + 1)

EnabledInCodeOrder(c) ==
  (IF c.DeepL THEN <<"DeepL">> ELSE <<>>)
    \o (IF c.Google THEN <<"Google">> ELSE <<>>)
    \o (IF c.DuckDuckGo THEN <<"DuckDuckGo">> ELSE <<>>)
    \o (IF c.OpenAI THEN EnabledSections(c, 1) ELSE <<>>)

IsPrefix(s, t) == Len(s) <= Len(t) /\ s = SubSeq(t, 1, Len(s))

\* The labels of the digest after "Original".
TranslationLabels(t) ==
  [i \in 1..(Len(t.translations) - 1) |-> t.translations[i + 1].key]

\* C6 as claimed: backends are called, and their entries stored, in the order
\* OpenAI-compatible, Google, DeepL, DuckDuckGo.
C6_Claim ==
  \A h \in Tasks :
    /\ IsNonDecreasing([i \in 1..Len(task[h].calls) |-> ClaimedRank(task[h].calls[i])])
    /\ IsNonDecreasing([i \in 1..Len(TranslationLabels(task[h])) |->
                          ClaimedRank(TranslationLabels(task[h])[i])])

\* C6 amended: the enabled backends are called in the order DeepL, Google,
\* DuckDuckGo, then the OpenAI-compatible sections in configuration order
\* (up to the first that succeeds), and the entries of the digest follow
\* that order.
C6_CodeOrder ==
  \A h \in Tasks :
    /\ IsPrefix(task[h].calls, EnabledInCodeOrder(cfg))
    /\ (LoopOver(task[h]) /\ task[h].filtered_text /= <<>> /\ task[h].won = <<>>)
         => task[h].calls = EnabledInCodeOrder(cfg)
    /\ IsStrictlyIncreasing([i \in 1..Len(TranslationLabels(task[h])) |->
                               CodeRank(TranslationLabels(task[h])[i])])

\* All four kinds of backend were called for one message, and the digest
\* holds an entry of each.
C6_Witness ==
  \E h \in Tasks :
    /\ LoopOver(task[h])
    /\ Len(task[h].calls) >= 4
    /\ TranslationLabels(task[h]) = <<"DeepL", "Google", "DuckDuckGo", "m1">>

\* ---------------------------------------------------------------------- C7
\* The entries of the digest stored under a model name.
ModelEntries(t) ==
  {i \in 1..Len(t.translations) : t.translations[i].key \in ModelNames}

\* C7: once translate_with_openai has returned a translation, the loop is
\* over: no backend is called and no provider asked after it, and the digest
\* keeps exactly one model-labelled entry, holding that translation.
C7_ShortCircuit ==
  \A h \in Tasks :
    task[h].won /= <<>> =>
      /\ LoopOver(task[h])
      /\ Len(task[h].calls) = task[h].won[1].calls
      /\ Len(task[h].requests) = task[h].won[1].requests
      /\ Cardinality(ModelEntries(task[h])) = 1
      /\ DictHas(task[h].translations, task[h].won[1].model)
      /\ DictGet(task[h].translations, task[h].won[1].model)
           = task[h].won[1].translation

\* The first of two enabled OpenAI sections succeeded and the message was
\* dispatched.
C7_Witness ==
  \E h \in Tasks :
    /\ task[h].won /= <<>>
    /\ task[h].pc = "dispatched"
    /\ Len(EnabledSections(cfg, 1)) >= 2
    /\ task[h].calls[Len(task[h].calls)] = EnabledSections(cfg, 1)[1]

\* ---------------------------------------------------------------------- C8
Builtins == {"DeepL", "Google", "DuckDuckGo"}

BuiltinEnabled(c, b) ==
  CASE b = "DeepL" -> c.DeepL
    [] b = "Google" -> c.Google
    [] b = "DuckDuckGo" -> c.DuckDuckGo

\* C8 as claimed: when the loop is over for a non-empty filtered text, every
\* enabled backend among Google, DeepL and DuckDuckGo has been called and
\* has an entry in the digest: its translation or "Translation failed.".
C8_Claim ==
  \A h \in Tasks :
    (LoopOver(task[h]) /\ task[h].filtered_text /= <<>>) =>
      \A b \in Builtins :
        BuiltinEnabled(cfg, b) =>
          /\ \E i \in 1..Len(task[h].calls) : task[h].calls[i] = b
          /\ DictHas(task[h].translations, b)

\* ---------------------------------------------------------------------- C9
\* pattern occurs in text
Contains(text, pattern) ==
  \E i \in 1..(Len(text) - Len(pattern) + 1) :
    /\ text[i] = pattern[1]
    /\ SubSeq(text, i, i + Len(pattern) - 1) = pattern

\* The text has a section with this label.
HasSection(text, label) ==
  Contains(text, <<"\n", "\n">> \o Chars(label) \o <<":", "\n">>)

\* The text has a section with this label that reads "Translation failed.".
HasFailedSection(text, label) ==
  Contains(text, <<"\n", "\n">> \o section_text(label, TranslationFailed))

\* C9 as claimed: the text handed to the client for dispatch has no section
\* for a backend that failed for the message.
C9_Claim ==
  \A h \in Tasks :
    task[h].pc = "sending" =>
      /\ \A b \in Builtins :
           b \in task[h].failed => ~HasSection(task[h].sent.text, b)
      /\ task[h].won = <<>> =>
           \A m \in ModelNames : ~HasSection(task[h].sent.text, m)

\* C9 amended: an OpenAI-compatible call that fails, and a call that raises,
\* leave no section in the composed and in the dispatched text; a Google,
\* DeepL or DuckDuckGo call that returns the failure value does surface: the
\* composed text has that backend's section reading "Translation failed.",
\* and so has the text handed to send_message.
C9_Surfacing ==
  \A h \in Tasks :
    task[h].pc = "sending" =>
      /\ \A b \in Builtins :
           /\ (b \in task[h].failed \ task[h].raised) =>
                /\ HasFailedSection(task[h].message_content, b)
                /\ task[h].sent.via = "send_message" =>
                     HasFailedSection(task[h].sent.text, b)
           /\ b \in task[h].raised =>
                /\ ~HasSection(task[h].message_content, b)
                /\ ~HasSection(task[h].sent.text, b)
      /\ \A m \in ModelNames :
           /\ ~HasFailedSection(task[h].message_content, m)
           /\ task[h].won = <<>> =>
                /\ ~HasSection(task[h].message_content, m)
                /\ ~HasSection(task[h].sent.text, m)

\* A message was dispatched after Google returned the failure value,
\* DuckDuckGo raised and every OpenAI provider faulted.
C9_Witness ==
  \E h \in Tasks :
    /\ task[h].pc = "dispatched"
    /\ "Google" \in task[h].failed
    /\ "DuckDuckGo" \in task[h].raised
    /\ task[h].requests /= <<>>
    /\ task[h].won = <<>>
    /\ HasFailedSection(task[h].sent.text, "Google")

\* --------------------------------------------------------------------- C10
EndsWithEllipsis(text) ==
  /\ Len(text) >= 3
  /\ SubSeq(text, Len(text) - 2, Len(text)) = Ellipsis

\* C10 as claimed: whatever is handed to send_file or send_message is at most
\* 1024 characters long, and is the truncated text when the composed text
\* is longer.
C10_Claim ==
  \A h \in Tasks :
    task[h].sent /= NotSent =>
      /\ Len(task[h].sent.text) <= CAPTION_MAX_LENGTH
      /\ Len(task[h].message_content) > CAPTION_MAX_LENGTH =>
           /\ Len(task[h].sent.text) = CAPTION_MAX_LENGTH
           /\ EndsWithEllipsis(task[h].sent.text)

\* C10 amended: the caption handed to send_file (media present) is at most
\* 1024 characters long: the composed text, or when that is longer its first
\* 1021 characters and "..."; the text handed to send_message (no media) is
\* the composed text, unclipped.
C10_Caption ==
  \A h \in Tasks :
    task[h].sent /= NotSent =>
      /\ task[h].sent.via = (IF task[h].media THEN "send_file" ELSE "send_message")
      /\ task[h].sent.via = "send_message" =>
           task[h].sent.text = task[h].message_content
      /\ task[h].sent.via = "send_file" =>
           /\ Len(task[h].sent.text) <= CAPTION_MAX_LENGTH
           /\ Len(task[h].message_content) <= CAPTION_MAX_LENGTH =>
                task[h].sent.text = task[h].message_content
           /\ Len(task[h].message_content) > CAPTION_MAX_LENGTH =>
                /\ Len(task[h].sent.text) = CAPTION_MAX_LENGTH
                /\ EndsWithEllipsis(task[h].sent.text)
                /\ SubSeq(task[h].sent.text, 1, CAPTION_MAX_LENGTH - 3)
                     = SubSeq(task[h].message_content, 1, CAPTION_MAX_LENGTH - 3)

\* A composed text longer than a caption was dispatched with its media.
C10_Witness ==
  \E h \in Tasks :
    /\ task[h].pc = "dispatched"
    /\ task[h].sent.via = "send_file"
    /\ Len(task[h].message_content) > CAPTION_MAX_LENGTH
    /\ Len(task[h].sent.text) = CAPTION_MAX_LENGTH

\* --------------------------------------------------------------------- C11
\* What truncate_caption is to return for a caption and a limit.
TruncatedTo(result, caption, max_length) ==
  IF Len(caption) > max_length
    THEN /\ Len(result) = max_length
         /\ SubSeq(result, 1, max_length - 3) = SubSeq(caption, 1, max_length - 3)
         /\ SubSeq(result, max_length - 2, max_length) = Ellipsis
    ELSE result = caption

C12_Claim ==
  (calc.fn = "filter_common_phrases" /\ calc.pc = "done") => calc.again = calc.out
\* --------------------------------------------------------------------- C13
Waiting(t) == t.pc \in {"google", "deepl", "duckduckgo", "openai"}

\* Nothing of the steps after the dedup gate has happened to the task.
NothingAfterGate(t) ==
  /\ t.filtered_text = <<>> /\ t.translations = <<>> /\ t.calls = <<>>
  /\ t.message_content = <<>> /\ t.sent = NotSent /\ t.sends = 0

\* C13: within one handler the steps come in causal order, whatever the other
\* handlers do meanwhile: before the dedup lookup nothing is filtered,
\* translated, composed or sent, and a rejected message stays so; while a
\* backend is awaited the lookup is done, the digest starts with the filtered
\* text, and nothing is composed or sent; once the send is started it is the
\* only one and it carries the digest composed of every result recorded.
C13_CausalOrder ==
  \A h \in Tasks :
    LET t == task[h] IN
    /\ t.pc \in {"idle", "skipped", "hashing"} =>
          (t.looked_up = NoTime /\ NothingAfterGate(t))
    /\ t.pc = "duplicate" => (t.looked_up /= NoTime /\ NothingAfterGate(t))
    /\ Waiting(t) =>
          /\ t.looked_up /= NoTime
          /\ t.filtered_text = filter_common_phrases(t.original_text, cfg.common_phrases)
          /\ t.translations[1] = seed_translations(t.filtered_text)[1]
          /\ t.calls /= <<>>
          /\ t.message_content = <<>> /\ t.sent = NotSent /\ t.sends = 0
    /\ LoopOver(t) =>
          /\ t.looked_up /= NoTime
          /\ t.translations[1] = seed_translations(t.filtered_text)[1]
          /\ t.message_content = compose(t.username, t.translations)
          /\ t.sent = dispatch_of(t.media, t.message_content)
          /\ t.sends = 1

\* One handler has called every backend and started its send while another
\* waits for a provider.
C13_Witness ==
  \E h, g \in Tasks :
    /\ task[h].pc = "sending"
    /\ task[h].calls = <<"DeepL", "Google", "DuckDuckGo", "OpenAI1">>
    /\ DictHas(task[h].translations, "m1")
    /\ task[g].pc = "openai"
\* --------------------------------------------------------------------- C14
\* The cache holds the task's fingerprint with the time the task recorded.
Recorded(t) ==
  /\ t.message_hash \in DOMAIN processed_messages
  /\ processed_messages[t.message_hash] = t.looked_up

\* C14: a message that passes the dedup gate is dispatched exactly once: no
\* send before the translator loop is over, one send from then on.  When the
\* send fails the handler is over in DispatchFailed: it takes no further
\* step, so there is no retry, and the failing step leaves the cache as it
\* is: the fingerprint stays recorded, with its time, for its retention time.
C14_DispatchOnce ==
  /\ [](\A h \in Tasks :
          LET t == task[h] IN
          /\ t.sends = (IF LoopOver(t) THEN 1 ELSE 0)
          /\ (Accepted(t) /\ ~Waiting(t)) => LoopOver(t)
          /\ (t.pc = "dispatch_failed"
                /\ now - t.looked_up <= PROCESSED_MESSAGE_RETENTION_MINUTES)
               => Recorded(t))
  /\ [][\A h \in Tasks :
          /\ task[h].pc = "dispatch_failed" => task'[h] = task[h]
          /\ (task[h].pc = "sending" /\ task'[h].pc = "dispatch_failed")
               => /\ processed_messages' = processed_messages
                  /\ task'[h] = [task[h] EXCEPT !.pc = "dispatch_failed"]]_vars

\* A send has failed, the fingerprint is still in the cache, and a later
\* message with the same text has been rejected for it.
C14_Witness ==
  \E h, g \in Tasks :
    /\ h < g
    /\ task[h].pc = "dispatch_failed"
    /\ Recorded(task[h])
    /\ task[g].pc = "duplicate"
    /\ task[g].original_text = task[h].original_text
    /\ task[g].looked_up > task[h].looked_up
\* --------------------------------------------------------------------- C15
Terminal(t) == t.pc \in {"skipped", "duplicate", "dispatched", "dispatch_failed"}

\* C15: when every awaited call comes back and the handlers are scheduled
\* fairly, every message received ends: dropped at Received, rejected as a
\* duplicate, dispatched, or failed to dispatch.
C15_Terminates ==
  \A h \in Tasks : (task[h].pc /= "idle") ~> Terminal(task[h])

\* Every message has ended: one dispatched, a later one failed to dispatch.
C15_Witness ==
  /\ inbox = <<>>
  /\ \E h, g \in Tasks :
       /\ h < g
       /\ task[h].pc = "dispatched"
       /\ task[g].pc = "dispatch_failed"
\* --------------------------------------------------------------------- C16
\* C16: right after a run of cleanup_processed_messages (a handler's step
\* from Received to the await of the hash) the cache has no entry older than
\* now - 30 minutes, and every entry that was not older than that, an entry
\* exactly at the cutoff included, is still there with its time; nothing
\* else has come in.
C16_Cleanup ==
  [][\A h \in Tasks :
       (task[h].pc = "idle" /\ task'[h].pc = "hashing") =>
         LET cutoff_time == now - PROCESSED_MESSAGE_RETENTION_MINUTES IN
         /\ \A k \in DOMAIN processed_messages' :
              processed_messages'[k] >= cutoff_time
         /\ \A k \in DOMAIN processed_messages :
              processed_messages[k] >= cutoff_time =>
                /\ k \in DOMAIN processed_messages'
                /\ processed_messages'[k] = processed_messages[k]
         /\ DOMAIN processed_messages' \subseteq DOMAIN processed_messages]_vars

\* A handler's cleanup has kept an entry recorded exactly 30 minutes before,
\* and the handler has then been rejected for it.
C16_Witness ==
  \E h \in Tasks : task[h].kept /\ task[h].pc = "duplicate"
\* --------------------------------------------------------------------- C17
ChannelFailures == {"no_channels", "no_valid_channels", "invalid_usernames", "no_entities"}

\* The configured channels, whether main got as far as listing them or not.
Configured == channels_of(boot.entries, 1)

\* The entities of the channels that resolved, in configured order.
ResolvedInOrder(n) ==
  LET at == SelectSeq([k \in 1..n |-> k], LAMBDA k : k \notin boot.errors)
  IN  [j \in 1..Len(at) |-> EntityOf(boot.CHANNELS[at[j]])]

AllWellFormed(channels) ==
  \A k \in 1..Len(channels) : matches_username(channels[k])

\* C17 as claimed: startup ends for a channel reason only when no channel
\* resolves, every configured channel being invalid or having failed to
\* resolve, so that an invalid channel next to a good one is left out and
\* startup goes on; and the handler is registered over the channels that
\* resolved, in configured order.
C17_Claim ==
  /\ (boot.pc = "exit" /\ boot.failure \in ChannelFailures) =>
       \A k \in 1..Len(Configured) :
         ~matches_username(Configured[k]) \/ k \in boot.errors
  /\ boot.pc = "registered" => boot.chats = ResolvedInOrder(Len(boot.CHANNELS))

\* C17: a configured name that does not match the username pattern ends the
\* startup, whatever the other channels are, before anything is resolved; so
\* does an empty channel list.  When every name is well formed, a channel
\* that fails to resolve is logged and left out while the next ones are
\* resolved; startup then ends only if no channel resolved, and else the
\* handler is registered over exactly the channels that resolved, in
\* configured order.
C17_Startup ==
  /\ (boot.pc = "exit" /\ boot.failure \in {"no_channels", "no_valid_channels"})
       => Configured = <<>>
  /\ (boot.pc = "exit" /\ boot.failure = "invalid_usernames")
       => (~AllWellFormed(Configured) /\ boot.errors = {} /\ boot.i = 0)
  /\ (boot.pc = "exit" /\ boot.failure = "no_entities")
       => (AllWellFormed(Configured) /\ boot.errors = 1..Len(boot.CHANNELS))
  /\ boot.pc \in {"starting", "resolving", "registered"}
       => (boot.CHANNELS = Configured /\ Configured /= <<>> /\ AllWellFormed(Configured))
  /\ boot.pc = "resolving"
       => /\ boot.i \in 1..Len(boot.CHANNELS)
          /\ boot.errors \subseteq 1..(boot.i - 1)
          /\ boot.channel_entities = ResolvedInOrder(boot.i - 1)
  /\ boot.pc = "registered"
       => /\ boot.chats = ResolvedInOrder(Len(boot.CHANNELS))
          /\ boot.chats /= <<>>

\* The first channel failed to resolve and the handler is registered over
\* the second.
C17_Witness ==
  /\ boot.pc = "registered"
  /\ boot.errors = {1}
  /\ boot.chats = <<EntityOf(boot.CHANNELS[Len(boot.CHANNELS)])>>
  /\ Len(boot.CHANNELS) > 1
\* --------------------------------------------------------------------- C18
\* The requests of one run of translate_with_openai go down the providers
\* list, one request each, each but the last having faulted.
InListOrder(chain) ==
  /\ Len(chain) <= Len(openai_providers(cfg))
  /\ \A j \in 1..Len(chain) :
       /\ chain[j].model = openai_providers(cfg)[j]
       /\ j < Len(chain) => chain[j].outcome = "fault"

\* C18: translate_with_openai asks the providers in list order and moves on
\* to the next one only after a fault; it returns the answer of the first
\* provider whose request succeeds, labelled with that provider's model,
\* without asking any later provider; it returns the failure value
\* ("Translation failed.", no label) exactly when every provider has faulted
\* or the list is empty.
C18_ProviderOrder ==
  \A h \in Tasks :
    LET t == task[h] IN
    /\ t.pc = "openai" =>
         /\ InListOrder(t.chain)
         /\ Len(t.chain) = t.pidx
         /\ t.chain[t.pidx].outcome = "pending"
    /\ \A r \in 1..Len(t.returns) :
         LET ret == t.returns[r]
             n == Len(ret.chain)
         IN  /\ InListOrder(ret.chain)
             /\ IF n > 0 /\ ret.chain[n].outcome = "ok"
                  THEN /\ ret.model = openai_providers(cfg)[n]
                       /\ ret.translation = ret.chain[n].answer
                  ELSE /\ ret = openai_failure(ret.chain)
                       /\ n = Len(openai_providers(cfg))
                       /\ \A j \in 1..n : ret.chain[j].outcome = "fault"

\* The first provider faulted and the second one's answer was returned under
\* the second one's model.
C18_Witness ==
  \E h \in Tasks :
    \E r \in 1..Len(task[h].returns) :
      LET ret == task[h].returns[r] IN
      /\ Len(ret.chain) = Len(openai_providers(cfg))
      /\ Len(ret.chain) > 1
      /\ ret.chain[1].outcome = "fault"
      /\ ret.model = openai_providers(cfg)[Len(ret.chain)]
      /\ ret.translation = Translated

\* --------------------------------------------------------------------- C19
\* How many items of a sequence satisfy Test.
Count(seq, Test(_)) == Len(SelectSeq(seq, Test))

\* C19 as claimed: for one message translate_with_openai is run at most
\* once, and so each provider gets at most one request.
C19_Claim ==
  \A h \in Tasks :
    LET t == task[h] IN
    /\ Count(t.calls, StartsWithOpenAI) <= 1
    /\ \A p \in 1..Len(openai_providers(cfg)) :
         Count(t.requests, LAMBDA q : q = p) <= 1
\* --------------------------------------------------------------------- C20
\* What a step may do to the cache entry of key k: leave it as it is; evict
\* it, expired, in a handler's cleanup; or insert it, stamped now, as the
\* fingerprint of the handler that takes the step.
EntryFrame(k) ==
  LET pm == processed_messages
      cutoff_time == now - PROCESSED_MESSAGE_RETENTION_MINUTES
  IN  \/ /\ k \in DOMAIN pm /\ k \in DOMAIN pm'
         /\ pm'[k] = pm[k]
      \/ /\ k \in DOMAIN pm /\ k \notin DOMAIN pm'
         /\ pm[k] < cutoff_time
         /\ \E h \in Tasks : task[h].pc = "idle" /\ task'[h].pc = "hashing"
      \/ /\ k \notin DOMAIN pm /\ k \in DOMAIN pm'
         /\ pm'[k] = now
         /\ \E h \in Tasks : /\ task[h].pc = "hashing"
                              /\ Accepted(task'[h])
                              /\ task'[h].message_hash = k

\* The task has seen a backend fail or raise, or its send fail.
HasFailed(t) == t.failed /= {} \/ t.raised /= {} \/ t.pc = "dispatch_failed"

\* C20: the cache is changed only by a handler that evicts expired entries
\* or inserts its own fingerprint; no failed or raising backend and no
\* failed send removes or re-stamps an entry.  So the entry of an accepted
\* message, failed or not, is there with its original time while it is less
\* than 30 minutes old, and of two messages with the same text whose lookups
\* are less than 30 minutes apart only one is accepted, whatever failed.
C20_CacheFrame ==
  /\ [][\A k \in DOMAIN processed_messages \cup DOMAIN processed_messages' :
          EntryFrame(k)]_vars
  /\ [](\A h \in Tasks :
          LET t == task[h] IN
          /\ (Accepted(t) /\ now - t.looked_up < PROCESSED_MESSAGE_RETENTION_MINUTES)
               => Recorded(t)
          /\ \A g \in Tasks \ {h} :
               (/\ Accepted(t) /\ task[g].looked_up /= NoTime
                /\ task[g].original_text = t.original_text
                /\ task[g].looked_up - t.looked_up < PROCESSED_MESSAGE_RETENTION_MINUTES
                /\ t.looked_up - task[g].looked_up < PROCESSED_MESSAGE_RETENTION_MINUTES)
               => task[g].pc = "duplicate")

\* A message saw DeepL and Google fail, DuckDuckGo raise, every provider
\* fault and its send fail; its entry is in the cache with its time, and a
\* later message with its text has been rejected.
C20_Witness ==
  \E h, g \in Tasks :
    /\ task[h].pc = "dispatch_failed"
    /\ task[h].failed = {"DeepL", "Google", "DuckDuckGo", "OpenAI1"}
    /\ task[h].raised = {"DuckDuckGo"}
    /\ Recorded(task[h])
    /\ now > task[h].looked_up
    /\ task[g].pc = "duplicate"
    /\ task[g].original_text = task[h].original_text
    /\ task[g].looked_up = now
====
